---- MODULE Spec2Model ----
(***************************************************************************)
(* Model of ndppd's routing-table mirror (src/src/rt.c): the route and     *)
(* address caches with their freelists, the two record decoders (netlink   *)
(* and routing socket), the dump coordinator, the transport life cycle and *)
(* the route mutator.                                                      *)
(***************************************************************************)
EXTENDS Integers, Sequences, FiniteSets, TLC

\* ------------------------------------------------------------------ bounds
\* Pool objects (route and address entries together) that ND_ALLOC may hand out.
MaxAlloc == 3
\* Transport objects nd_io_socket may hand out.
MaxSockets == 3
\* Calls of nd_io_close one transport object may see.
MaxCloses == 2
\* records in one received buffer
MaxRecs == 2

\* ------------------------------------------------------------- input domains
\* An IPv6 address is the set of its bit positions (1 = most significant) that
\* are set; the inputs only ever set the two leading bits.
Addrs == SUBSET {1, 2}
Tables == {0, 1}
Oifs == {1, 2}
NULL == 0
\* The routing-protocol value the daemon puts on the routes it installs.
RTPROT_NDPPD == 72

\* The grace window a dump request arms.
DumpGrace == 5000

\* The clock readings the scheduler passes through: around one and two windows.
Times == {0, 1, 4999, 5000, 5001, 5002, 10001, 10002, 10003}

\* addr.h: bitwise equality of two addresses.
nd_addr_eq(a, b) == a = b

\* addr.h: the first pflen bits of the two addresses agree.
nd_addr_match(a, b, pflen) == a \cap (1 .. pflen) = b \cap (1 .. pflen)

\* The prefixes the kernel reports routes for: ::/0, 0/1, 00/2 nested in one
\* another, and 1/1 beside them.
RoutePrefixes ==
  { [dst |-> {}, pflen |-> 0], [dst |-> {}, pflen |-> 1], [dst |-> {}, pflen |-> 2],
    [dst |-> {1}, pflen |-> 1] }

\* Routes of other origins exist for every prefix on either interface; the
\* marked ones are those the daemon installed: the most specific prefix, on the
\* second interface.
RouteRecs ==
  { r \in { [dst |-> p.dst, pflen |-> p.pflen, oif |-> o, table |-> t, owned |-> w] :
              p \in RoutePrefixes, o \in Oifs, t \in Tables, w \in BOOLEAN } :
      r.owned => (r.oif = 2 /\ r.pflen = 2) }

\* A delete record carries no marker: ndL_handle_delroute leaves owned zero.
RouteDelRecs == { r \in RouteRecs : r.owned = FALSE }

\* Interface addresses: one, and three more that each differ from it in one field.
AddrRecs ==
  { [iif |-> 1, addr |-> {}, pflen |-> 64], [iif |-> 2, addr |-> {}, pflen |-> 64],
    [iif |-> 1, addr |-> {2}, pflen |-> 64], [iif |-> 1, addr |-> {}, pflen |-> 128] }

VARIABLES
  ndL_routes,       \* the route list, head first
  ndL_free_routes,  \* route freelist: the number of released entries on it
  ndL_addrs,        \* the address list, head first
  ndL_free_addrs,   \* address freelist: the number of released entries on it
  peak_routes,      \* the most route entries ever live at once (a history
                    \* variable, not program state)
  peak_addrs,       \* the most address entries ever live at once (likewise)
  lastOp            \* the operation that ran last, what it did, and what it
                    \* returned or handed to the transport

VARIABLES
  platform,            \* the build: "netlink" (__linux__) or "route" (the #else branch)
  ndL_io,              \* the transport: NULL or the number of an object in ios
  ios,                 \* every nd_io_t that nd_io_socket has returned, in order
  nd_rt_dump_timeout,  \* pending-until, 0 when no dump is in flight
  nd_current_time,     \* the scheduler's clock, only read here
  outstanding,         \* dump requests handed to the transport since the last
                       \* decoded NLMSG_DONE (a history variable, not program state)
  armedBy              \* the request that set pending-until, "none" once an
                       \* NLMSG_DONE has cleared it (a history variable)

cacheVars == <<ndL_routes, ndL_free_routes, ndL_addrs, ndL_free_addrs, peak_routes, peak_addrs>>
ioVars == <<platform, ndL_io, ios>>
dumpVars == <<nd_rt_dump_timeout, nd_current_time, outstanding, armedBy>>
vars == <<ndL_routes, ndL_free_routes, ndL_addrs, ndL_free_addrs, lastOp,
          platform, ndL_io, ios, nd_rt_dump_timeout, nd_current_time, outstanding,
          peak_routes, peak_addrs, armedBy>>

\* ------------------------------------------------------------- list helpers
InsertAt(s, k, x) == SubSeq(s, 1, k - 1) \o <<x>> \o SubSeq(s, k, Len(s))
RemoveAt(s, k) == SubSeq(s, 1, k - 1) \o SubSeq(s, k + 1, Len(s))
\* Index of the first element of s satisfying P, or Len(s) + 1.
RECURSIVE FirstFrom(_, _, _)
FirstFrom(s, P(_), i) ==
  IF i > Len(s) THEN i ELSE IF P(s[i]) THEN i ELSE FirstFrom(s, P, i + 1)
FirstIdx(s, P(_)) == FirstFrom(s, P, 1)

\* Pool objects allocated so far: every one is in a list or on a freelist.
RoutesAllocated == Len(ndL_routes) + ndL_free_routes
AddrsAllocated == Len(ndL_addrs) + ndL_free_addrs

\* ------------------------------------------------------------- route cache
SameRouteKey(n, route) ==
  nd_addr_eq(n.dst, route.dst) /\ n.pflen = route.pflen /\ n.table = route.table

\* Variant: the new node is always linked in at the head.
RouteInsertPos_prepend(routes, route) == 1

\* Variant: the scan passes every entry at least as long as the new one, so
\* the new entry goes after the entries of equal prefix length.
RouteInsertPos_afterEqual(routes, route) ==
  FirstIdx(routes, LAMBDA cur : route.pflen > cur.pflen)

\* Where the sorting loop stops: at the first node the new one does not rank below.
RouteInsertPos(routes, route) ==
  FirstIdx(routes, LAMBDA cur : route.pflen >= cur.pflen)

\* Variant: the duplicate scan also compares the outbound interface.
ndL_new_route_oifInKey(routes, free, route) ==
  IF \E i \in 1 .. Len(routes) :
       SameRouteKey(routes[i], route) /\ routes[i].oif = route.oif
    THEN [routes |-> routes, free |-> free, did |-> "dup"]
    ELSE [routes |-> InsertAt(routes, RouteInsertPos(routes, route), route),
          free |-> IF free > 0 THEN free - 1 ELSE free,
          did |-> IF free > 0 THEN "reused" ELSE "allocated"]

\* Variant: the duplicate scan looks at the head node only.
ndL_new_route_headOnly(routes, free, route) ==
  IF routes # <<>> /\ SameRouteKey(routes[1], route)
    THEN [routes |-> routes, free |-> free, did |-> "dup"]
    ELSE [routes |-> InsertAt(routes, RouteInsertPos(routes, route), route),
          free |-> IF free > 0 THEN free - 1 ELSE free,
          did |-> IF free > 0 THEN "reused" ELSE "allocated"]

\* Variant: every insert takes a fresh object and leaves the freelist alone.
ndL_new_route_noReuse(routes, free, route) ==
  IF \E i \in 1 .. Len(routes) : SameRouteKey(routes[i], route)
    THEN [routes |-> routes, free |-> free, did |-> "dup"]
    ELSE [routes |-> InsertAt(routes, RouteInsertPos(routes, route), route),
          free |-> free,
          did |-> "allocated"]

ndL_new_route(routes, free, route) ==
  IF \E i \in 1 .. Len(routes) : SameRouteKey(routes[i], route)
    THEN [routes |-> routes, free |-> free, did |-> "dup"]
    ELSE [routes |-> InsertAt(routes, RouteInsertPos(routes, route), route),
          free |-> IF free > 0 THEN free - 1 ELSE free,
          did |-> IF free > 0 THEN "reused" ELSE "allocated"]

\* Variant: the delete scan matches on the insertion key, without the interface.
DeleteMatch_noOif(cur, route) ==
  nd_addr_eq(cur.dst, route.dst) /\ cur.pflen = route.pflen /\ cur.table = route.table

DeleteMatch(cur, route) ==
  nd_addr_eq(cur.dst, route.dst) /\ cur.oif = route.oif /\ cur.pflen = route.pflen
    /\ cur.table = route.table

ndL_delete_route(routes, free, route) ==
  LET k == FirstIdx(routes, LAMBDA cur : DeleteMatch(cur, route))
  IN IF k > Len(routes)
       THEN [routes |-> routes, free |-> free, did |-> "absent"]
       ELSE [routes |-> RemoveAt(routes, k), free |-> free + 1, did |-> "deleted"]

\* ------------------------------------------------------------- address cache
SameAddrKey(n, index, addr, pflen) ==
  n.iif = index /\ nd_addr_eq(n.addr, addr) /\ n.pflen = pflen

ndL_new_addr(addrs, free, index, addr, pflen) ==
  IF \E i \in 1 .. Len(addrs) : SameAddrKey(addrs[i], index, addr, pflen)
    THEN [addrs |-> addrs, free |-> free, did |-> "dup"]
    ELSE [addrs |-> <<[iif |-> index, addr |-> addr, pflen |-> pflen]>> \o addrs,
          free |-> IF free > 0 THEN free - 1 ELSE free,
          did |-> IF free > 0 THEN "reused" ELSE "allocated"]

ndL_delete_addr(addrs, free, index, addr, pflen) ==
  LET k == FirstIdx(addrs, LAMBDA n : SameAddrKey(n, index, addr, pflen))
  IN IF k > Len(addrs)
       THEN [addrs |-> addrs, free |-> free, did |-> "absent"]
       ELSE [addrs |-> RemoveAt(addrs, k), free |-> free + 1, did |-> "deleted"]

\* ------------------------------------------------------------------ lookup
\* Variant: the scan does not compare the table.
nd_rt_find_route_anyTable(routes, addr, table) ==
  LET k == FirstIdx(routes, LAMBDA route : nd_addr_match(route.dst, addr, route.pflen))
  IN IF k > Len(routes) THEN <<>> ELSE <<routes[k]>>

\* The first node in list order that contains addr and is of the table; the
\* result is <<node>>, or <<>> for NULL.
nd_rt_find_route(routes, addr, table) ==
  LET k == FirstIdx(routes,
                    LAMBDA route : nd_addr_match(route.dst, addr, route.pflen)
                                     /\ route.table = table)
  IN IF k > Len(routes) THEN <<>> ELSE <<routes[k]>>

\* ------------------------------------------------------------ route mutator
\* The delete request nd_rt_remove_route builds and hands to the transport.
nd_rt_remove_route(dst, pflen, table) ==
  [type |-> "delete_route", dst |-> dst, pflen |-> pflen, table |-> table]

\* Variant: the walk does not test the owned flag.
RECURSIVE nl_rt_remove_owned_routes_all(_)
nl_rt_remove_owned_routes_all(routes) ==
  IF routes = <<>>
    THEN <<>>
    ELSE <<nd_rt_remove_route(Head(routes).dst, Head(routes).pflen, Head(routes).table)>>
           \o nl_rt_remove_owned_routes_all(Tail(routes))

\* The requests of one walk over the route list, in list order.
RECURSIVE nl_rt_remove_owned_routes(_)
nl_rt_remove_owned_routes(routes) ==
  IF routes = <<>>
    THEN <<>>
    ELSE LET route == Head(routes)
         IN (IF route.owned
               THEN <<nd_rt_remove_route(route.dst, route.pflen, route.table)>>
               ELSE <<>>)
            \o nl_rt_remove_owned_routes(Tail(routes))

\* ------------------------------------------------------------------ actions
Op(op, did, val) == [op |-> op, did |-> did, val |-> val]

Max(a, b) == IF a >= b THEN a ELSE b

\* The file's statics are zero at program start.
InitStatics ==
  /\ ndL_routes = <<>>
  /\ ndL_free_routes = 0
  /\ ndL_addrs = <<>>
  /\ ndL_free_addrs = 0
  /\ nd_rt_dump_timeout = 0
  /\ nd_current_time = 0
  /\ outstanding = 0
  /\ peak_routes = 0
  /\ peak_addrs = 0
  /\ armedBy = "none"
  /\ lastOp = Op("init", "none", <<>>)

\* A fresh process of either build: no transport yet.
InitFresh ==
  /\ InitStatics
  /\ platform \in {"netlink", "route"}
  /\ ndL_io = NULL
  /\ ios = <<>>

\* A netlink process right after nd_rt_open() has succeeded: the transport is
\* open and bound, the read handler registered, the caches still empty.
Init ==
  /\ InitStatics
  /\ platform = "netlink"
  /\ ndL_io = 1
  /\ ios = <<[state |-> "open", handler |-> TRUE, closes |-> 0]>>

\* The event loop runs the read handler only for an open transport that has it
\* registered.
HandlerLive ==
  /\ ndL_io # NULL
  /\ ios[ndL_io].state = "open"
  /\ ios[ndL_io].handler

\* ND_ALLOC is only reached with an empty freelist; the pool is capped.
MayAllocate == RoutesAllocated + AddrsAllocated < MaxAlloc

\* A decoded route-add record reaches ndL_new_route.
NewRoute(route) ==
  LET res == ndL_new_route(ndL_routes, ndL_free_routes, route)
  IN /\ HandlerLive
     /\ res.did = "allocated" => MayAllocate
     /\ ndL_routes' = res.routes
     /\ ndL_free_routes' = res.free
     /\ peak_routes' = Max(peak_routes, Len(res.routes))
     /\ lastOp' = Op("new_route", res.did, <<>>)
     /\ UNCHANGED <<ndL_addrs, ndL_free_addrs, peak_addrs, ioVars, dumpVars>>

\* A decoded route-delete record reaches ndL_delete_route.  The note tells a
\* delete that found the identity key under another interface from one that
\* found nothing.
DeleteRoute(route) ==
  LET res == ndL_delete_route(ndL_routes, ndL_free_routes, route)
      note == IF res.did = "absent"
                   /\ \E i \in 1 .. Len(ndL_routes) :
                        /\ ndL_routes[i].dst = route.dst
                        /\ ndL_routes[i].pflen = route.pflen
                        /\ ndL_routes[i].table = route.table
                THEN "other_oif"
                ELSE res.did
  IN /\ HandlerLive
     /\ ndL_routes' = res.routes
     /\ ndL_free_routes' = res.free
     /\ lastOp' = Op("delete_route", note, <<>>)
     /\ UNCHANGED <<ndL_addrs, ndL_free_addrs, peak_routes, peak_addrs, ioVars, dumpVars>>

NewAddr(a) ==
  LET res == ndL_new_addr(ndL_addrs, ndL_free_addrs, a.iif, a.addr, a.pflen)
  IN /\ HandlerLive
     /\ res.did = "allocated" => MayAllocate
     /\ ndL_addrs' = res.addrs
     /\ ndL_free_addrs' = res.free
     /\ peak_addrs' = Max(peak_addrs, Len(res.addrs))
     /\ lastOp' = Op("new_addr", res.did, <<>>)
     /\ UNCHANGED <<ndL_routes, ndL_free_routes, peak_routes, ioVars, dumpVars>>

DeleteAddr(a) ==
  LET res == ndL_delete_addr(ndL_addrs, ndL_free_addrs, a.iif, a.addr, a.pflen)
  IN /\ HandlerLive
     /\ ndL_addrs' = res.addrs
     /\ ndL_free_addrs' = res.free
     /\ lastOp' = Op("delete_addr", res.did, <<>>)
     /\ UNCHANGED <<ndL_routes, ndL_free_routes, peak_routes, peak_addrs, ioVars, dumpVars>>

FindRoute(addr, table) ==
  /\ lastOp' = Op("find_route", "returned", nd_rt_find_route(ndL_routes, addr, table))
  /\ UNCHANGED <<cacheVars, ioVars, dumpVars>>

\* The walk calls nd_rt_remove_route for each owned node and drops its result.
RemoveOwnedRoutes ==
  /\ lastOp' = Op("remove_owned_routes", "returned", nl_rt_remove_owned_routes(ndL_routes))
  /\ UNCHANGED <<cacheVars, ioVars, dumpVars>>

\* ------------------------------------------------------------------ transport
\* Variant: a failed bind closes the socket but leaves ndL_io pointing at it.
nd_rt_open_keepsIo(io, objs, plat, socketOk, bindOk) ==
  IF io # NULL
    THEN [io |-> io, ios |-> objs, ret |-> "true", did |-> "already"]
    ELSE IF ~socketOk
      THEN [io |-> NULL, ios |-> objs, ret |-> "false", did |-> "socket_failed"]
      ELSE LET new == Len(objs) + 1
           IN IF plat = "netlink" /\ ~bindOk
                THEN [io |-> new,
                      ios |-> Append(objs, [state |-> "closed", handler |-> FALSE, closes |-> 1]),
                      ret |-> "false", did |-> "bind_failed"]
                ELSE [io |-> new,
                      ios |-> Append(objs, [state |-> "open", handler |-> TRUE, closes |-> 0]),
                      ret |-> "true", did |-> "opened"]

\* nd_rt_open().  nd_io_socket and nd_io_bind fail or succeed as the system
\* decides; the routing-socket build does not bind.
nd_rt_open(io, objs, plat, socketOk, bindOk) ==
  IF io # NULL
    THEN [io |-> io, ios |-> objs, ret |-> "true", did |-> "already"]
    ELSE IF ~socketOk
      THEN [io |-> NULL, ios |-> objs, ret |-> "false", did |-> "socket_failed"]
      ELSE LET new == Len(objs) + 1
           IN IF plat = "netlink" /\ ~bindOk
                THEN [io |-> NULL,
                      ios |-> Append(objs, [state |-> "closed", handler |-> FALSE, closes |-> 1]),
                      ret |-> "false", did |-> "bind_failed"]
                ELSE [io |-> new,
                      ios |-> Append(objs, [state |-> "open", handler |-> TRUE, closes |-> 0]),
                      ret |-> "true", did |-> "opened"]

\* nd_rt_cleanup(): nd_io_close on the object ndL_io points to; ndL_io keeps
\* its value.
nd_rt_cleanup(io, objs) ==
  IF io # NULL
    THEN [io |-> io,
          ios |-> [objs EXCEPT ![io] = [state |-> "closed", handler |-> @.handler,
                                        closes |-> @.closes + 1]]]
    ELSE [io |-> io, ios |-> objs]

Open(socketOk, bindOk) ==
  LET res == nd_rt_open(ndL_io, ios, platform, socketOk, bindOk)
  IN /\ res.did \in {"bind_failed", "opened"} => Len(ios) < MaxSockets
     /\ ndL_io' = res.io
     /\ ios' = res.ios
     /\ lastOp' = Op("open", res.did, <<res.ret>>)
     /\ UNCHANGED <<platform, cacheVars, dumpVars>>

Cleanup ==
  LET res == nd_rt_cleanup(ndL_io, ios)
  IN /\ ndL_io # NULL => ios[ndL_io].closes < MaxCloses
     /\ ndL_io' = res.io
     /\ ios' = res.ios
     /\ lastOp' = Op("cleanup", IF ndL_io # NULL THEN "closed" ELSE "none", <<>>)
     /\ UNCHANGED <<platform, cacheVars, dumpVars>>

\* ------------------------------------------------------------ dump coordinator
\* Variant: the request is armed and sent without looking at pending-until.
QueryDump_noGuard(timeout, now, request) ==
  [timeout |-> now + DumpGrace, sent |-> <<request>>, ret |-> "true"]

\* The __linux__ branch shared by nd_rt_query_routes and nd_rt_query_addresses:
\* Variant: a refused query still moves pending-until to its own time + 5000.
QueryDump_rearm(timeout, now, request) ==
  IF timeout # 0
    THEN [timeout |-> now + DumpGrace, sent |-> <<>>, ret |-> "false"]
    ELSE [timeout |-> now + DumpGrace, sent |-> <<request>>, ret |-> "true"]

\* refuse while pending-until is set, else arm it and send; the result of
\* nd_io_send is dropped.
QueryDump(timeout, now, request) ==
  IF timeout # 0
    THEN [timeout |-> timeout, sent |-> <<>>, ret |-> "false"]
    ELSE [timeout |-> now + DumpGrace, sent |-> <<request>>, ret |-> "true"]

nd_rt_query_routes(timeout, now) == QueryDump(timeout, now, "RTM_GETROUTE")

nd_rt_query_addresses(timeout, now) == QueryDump(timeout, now, "RTM_GETADDR")

\* The transport's send: the request as handed over and the value returned,
\* the byte count on success and a negative value on failure.
nd_io_send(req, sendOk) == [req |-> req, ret |-> IF sendOk THEN 1 ELSE -1]

\* Every request the call hands to nd_io_send, with what the send returned.
SendAll(sent, sendOk) == [i \in 1 .. Len(sent) |-> nd_io_send(sent[i], sendOk)]

\* outstanding counts the requests handed to the transport since the last
\* NLMSG_DONE; lastOp.val keeps each of them with the send's return value.
QueryRoutes(sendOk) ==
  LET res == nd_rt_query_routes(nd_rt_dump_timeout, nd_current_time)
  IN /\ nd_rt_dump_timeout' = res.timeout
     /\ outstanding' = outstanding + Len(res.sent)
     /\ armedBy' = IF res.sent # <<>> THEN "RTM_GETROUTE" ELSE armedBy
     /\ lastOp' = Op("query_routes", res.ret, SendAll(res.sent, sendOk))
     /\ UNCHANGED <<nd_current_time, cacheVars, ioVars>>

QueryAddresses(sendOk) ==
  LET res == nd_rt_query_addresses(nd_rt_dump_timeout, nd_current_time)
  IN /\ nd_rt_dump_timeout' = res.timeout
     /\ outstanding' = outstanding + Len(res.sent)
     /\ armedBy' = IF res.sent # <<>> THEN "RTM_GETADDR" ELSE armedBy
     /\ lastOp' = Op("query_addresses", res.ret, SendAll(res.sent, sendOk))
     /\ UNCHANGED <<nd_current_time, cacheVars, ioVars>>

\* The read handler decodes an NLMSG_DONE record.
ndL_io_handler_done(timeout) == 0

DumpDone ==
  /\ HandlerLive
  /\ nd_rt_dump_timeout' = ndL_io_handler_done(nd_rt_dump_timeout)
  /\ outstanding' = 0
  /\ armedBy' = "none"
  /\ lastOp' = Op("dump_done", "decoded", <<>>)
  /\ UNCHANGED <<nd_current_time, cacheVars, ioVars>>

\* The scheduler moves the clock on.
Tick ==
  /\ \E t \in Times : t > nd_current_time /\ nd_current_time' = t
  /\ lastOp' = Op("tick", "none", <<>>)
  /\ UNCHANGED <<nd_rt_dump_timeout, outstanding, armedBy, cacheVars, ioVars>>

\* ------------------------------------------------------------ route requests
\* The routes the daemon asks the kernel to install or remove.
MutatorArgs ==
  { [dst |-> {}, pflen |-> 2, oif |-> 2, table |-> 0],
    [dst |-> {1}, pflen |-> 1, oif |-> 1, table |-> 1] }

\* The request nd_rt_add_route builds (netlink build).
nd_rt_add_route(dst, pflen, oif, table) ==
  [type |-> "add_route", dst |-> dst, pflen |-> pflen, oif |-> oif, table |-> table,
   protocol |-> RTPROT_NDPPD]

\* Variant: the send's result is dropped, as the query functions drop it.
SentOk_dropped(ret) == TRUE

\* `return nd_io_send(...) >= 0`
SentOk(ret) == ret >= 0

\* Variant: a request that was sent also enters the route in the cache, as
\* the daemon's own, without waiting for the kernel's record.
AddRoute_optimistic(a, sendOk) ==
  LET snd == nd_io_send(nd_rt_add_route(a.dst, a.pflen, a.oif, a.table), sendOk)
      res == ndL_new_route(ndL_routes, ndL_free_routes,
                           [dst |-> a.dst, pflen |-> a.pflen, oif |-> a.oif,
                            table |-> a.table, owned |-> TRUE])
  IN /\ lastOp' = Op("add_route", IF SentOk(snd.ret) THEN "true" ELSE "false", <<snd>>)
     /\ (sendOk /\ res.did = "allocated") => MayAllocate
     /\ ndL_routes' = IF sendOk THEN res.routes ELSE ndL_routes
     /\ ndL_free_routes' = IF sendOk THEN res.free ELSE ndL_free_routes
     /\ UNCHANGED <<ndL_addrs, ndL_free_addrs, peak_routes, peak_addrs, ioVars, dumpVars>>

AddRoute(a, sendOk) ==
  LET snd == nd_io_send(nd_rt_add_route(a.dst, a.pflen, a.oif, a.table), sendOk)
  IN /\ lastOp' = Op("add_route", IF SentOk(snd.ret) THEN "true" ELSE "false", <<snd>>)
     /\ UNCHANGED <<cacheVars, ioVars, dumpVars>>

RemoveRoute(a, sendOk) ==
  LET snd == nd_io_send(nd_rt_remove_route(a.dst, a.pflen, a.table), sendOk)
  IN /\ lastOp' = Op("remove_route", IF SentOk(snd.ret) THEN "true" ELSE "false", <<snd>>)
     /\ UNCHANGED <<cacheVars, ioVars, dumpVars>>

\* ------------------------------------------------------------------ decoders
\* Record lengths are counted in units of one record header: a header is one
\* unit long and every record of the input domain, header and body, two.
HdrLen == 1
RecLen == 2

\* A netlink record: the nlmsghdr's length and type, the rtmsg / ifaddrmsg
\* fields and the attributes found in the body.  dst and oif are the RTA_DST
\* (IFA_ADDRESS) and RTA_OIF attributes: dst is <<>> when the attribute is
\* missing, oif is 0 when it is missing or carries index 0.
NlRec(type, len, dst, pflen, oif, table, protocol) ==
  [type |-> type, len |-> len, dst |-> dst, pflen |-> pflen, oif |-> oif,
   table |-> table, protocol |-> protocol]

WireNl ==
  { NlRec("RTM_NEWROUTE", RecLen, <<{}>>, 2, 2, 0, RTPROT_NDPPD),
    NlRec("RTM_NEWROUTE", RecLen, <<{}>>, 2, 1, 0, 3),
    NlRec("RTM_NEWROUTE", RecLen, <<>>, 1, 1, 0, 3),
    NlRec("RTM_NEWROUTE", RecLen, <<{1}>>, 1, 0, 1, 3),
    NlRec("RTM_NEWROUTE", 0, <<{1}>>, 1, 1, 1, 3),
    NlRec("RTM_DELROUTE", RecLen, <<{}>>, 2, 2, 0, RTPROT_NDPPD),
    NlRec("RTM_DELROUTE", RecLen, <<{}>>, 2, 0, 0, 3),
    NlRec("RTM_NEWADDR", RecLen, <<{}>>, 64, 1, 0, 0),
    NlRec("RTM_DELADDR", RecLen, <<{}>>, 64, 1, 0, 0),
    NlRec("NLMSG_DONE", RecLen, <<>>, 0, 0, 0, 0),
    NlRec("NLMSG_ERROR", RecLen, <<>>, 0, 0, 0, 0),
    NlRec("RTM_NEWLINK", RecLen, <<>>, 0, 0, 0, 0) }

\* A routing-socket record: msglen and type, the interface index, the flags
\* and the socket addresses the rtm_addrs bitmask announces.  dst (RTAX_DST or
\* RTAX_IFA) and netmask (RTAX_NETMASK) are <<>> when their bit is not set.
RtRec(type, len, dst, netmask, index, flags) ==
  [type |-> type, len |-> len, dst |-> dst, netmask |-> netmask, index |-> index,
   flags |-> flags]

Sin6(addr) == [family |-> "AF_INET6", addr |-> addr]

WireRt ==
  { RtRec("RTM_ADD", RecLen, <<Sin6({})>>, <<{1, 2}>>, 2, {"RTF_UP", "RTF_PROTO3"}),
    RtRec("RTM_GET", RecLen, <<Sin6({})>>, <<{1, 2}>>, 1, {"RTF_UP"}),
    RtRec("RTM_ADD", RecLen, <<>>, <<{1}>>, 1, {"RTF_UP"}),
    RtRec("RTM_ADD", RecLen, <<[family |-> "AF_INET", addr |-> {}]>>, <<{1}>>, 1, {"RTF_UP"}),
    RtRec("RTM_ADD", RecLen, <<Sin6({1})>>, <<>>, 0, {"RTF_UP"}),
    RtRec("RTM_ADD", 0, <<Sin6({1})>>, <<{1}>>, 1, {"RTF_UP"}),
    RtRec("RTM_DELETE", RecLen, <<Sin6({})>>, <<{1, 2}>>, 2, {"RTF_UP", "RTF_PROTO3"}),
    RtRec("RTM_DELETE", RecLen, <<Sin6({1})>>, <<>>, 0, {"RTF_UP"}),
    RtRec("RTM_NEWADDR", RecLen, <<Sin6({})>>, <<{1, 2}>>, 1, {}),
    RtRec("RTM_DELADDR", RecLen, <<Sin6({})>>, <<{1, 2}>>, 1, {}),
    RtRec("RTM_IFINFO", RecLen, <<>>, <<>>, 1, {}) }

\* The records that also come as the cut-off last record of a buffer: the
\* complete route and address records for the first route and the address.
NlTails ==
  { w \in WireNl : w.len = RecLen /\ w.dst # <<>> /\ w.oif # 0 /\ w.protocol \in {RTPROT_NDPPD, 0} }
RtTails ==
  { w \in WireRt : w.len = RecLen /\ w.dst # <<>> /\ w.netmask # <<>> /\ w.type # "RTM_GET" }
Tails(plat) == IF plat = "netlink" THEN NlTails ELSE RtTails

\* A received buffer: records laid out back to back, each taking RecLen units,
\* the body of the last one cut off when cut holds (its header then declares
\* more than the buffer still has).
BuffersOf(wire, tails) ==
  { b \in [recs : UNION { [1 .. n -> wire] : n \in 0 .. MaxRecs }, cut : BOOLEAN] :
      b.cut => (b.recs # <<>> /\ b.recs[Len(b.recs)] \in tails) }

NlBuffers == BuffersOf(WireNl, NlTails)
RtBuffers == BuffersOf(WireRt, RtTails)
Buffers(plat) == IF plat = "netlink" THEN NlBuffers ELSE RtBuffers

BufLen(buf) == RecLen * Len(buf.recs) - (IF buf.cut THEN RecLen - HdrLen ELSE 0)

\* The header found at offset i of the buffer.
HdrAt(buf, i) == buf.recs[(i \div RecLen) + 1]

\* The subsystem's statics as one value, with what the walk over the current
\* buffer has done so far: examined counts the records it dispatched on, last
\* is what the last of them did.
Statics ==
  [routes |-> ndL_routes, free_routes |-> ndL_free_routes,
   addrs |-> ndL_addrs, free_addrs |-> ndL_free_addrs,
   peak_routes |-> peak_routes, peak_addrs |-> peak_addrs,
   timeout |-> nd_rt_dump_timeout,
   examined |-> 0, last |-> [op |-> "none", did |-> "none"], reason |-> "none"]

Did(st, op, did) == [st EXCEPT !.examined = @ + 1, !.last = [op |-> op, did |-> did]]

Stop(st, reason) == [st EXCEPT !.reason = reason]

CallNewRoute(st, route) ==
  LET res == ndL_new_route(st.routes, st.free_routes, route)
  IN [Did(st, "new_route", res.did) EXCEPT
        !.routes = res.routes, !.free_routes = res.free,
        !.peak_routes = Max(@, Len(res.routes))]

CallDeleteRoute(st, route) ==
  LET res == ndL_delete_route(st.routes, st.free_routes, route)
  IN [Did(st, "delete_route", res.did) EXCEPT
        !.routes = res.routes, !.free_routes = res.free]

CallNewAddr(st, index, addr, pflen) ==
  LET res == ndL_new_addr(st.addrs, st.free_addrs, index, addr, pflen)
  IN [Did(st, "new_addr", res.did) EXCEPT
        !.addrs = res.addrs, !.free_addrs = res.free,
        !.peak_addrs = Max(@, Len(res.addrs))]

CallDeleteAddr(st, index, addr, pflen) ==
  LET res == ndL_delete_addr(st.addrs, st.free_addrs, index, addr, pflen)
  IN [Did(st, "delete_addr", res.did) EXCEPT
        !.addrs = res.addrs, !.free_addrs = res.free]

\* --- netlink (__linux__)
ndL_handle_newaddr(st, msg) ==
  IF msg.dst = <<>>
    THEN Did(st, "dropped", "no_addr")
    ELSE CallNewAddr(st, msg.oif, msg.dst[1], msg.pflen)

ndL_handle_deladdr(st, msg) ==
  IF msg.dst = <<>>
    THEN Did(st, "dropped", "no_addr")
    ELSE CallDeleteAddr(st, msg.oif, msg.dst[1], msg.pflen)

\* Variant: only the destination attribute is required.
ndL_handle_newroute_dstOnly(st, msg) ==
  IF msg.dst = <<>>
    THEN Did(st, "dropped", "no_dst")
    ELSE CallNewRoute(st, [dst |-> msg.dst[1], pflen |-> msg.pflen, oif |-> msg.oif,
                           table |-> msg.table,
                           owned |-> msg.protocol = RTPROT_NDPPD])

\* Variant: every route the kernel reports is taken for the daemon's own.
ndL_handle_newroute_ownedAssumed(st, msg) ==
  IF msg.dst = <<>>
    THEN Did(st, "dropped", "no_dst")
    ELSE IF msg.oif = 0
      THEN Did(st, "dropped", "no_oif")
      ELSE CallNewRoute(st, [dst |-> msg.dst[1], pflen |-> msg.pflen, oif |-> msg.oif,
                             table |-> msg.table, owned |-> TRUE])

\* `if (!dst || !oif) return;`
ndL_handle_newroute(st, msg) ==
  IF msg.dst = <<>>
    THEN Did(st, "dropped", "no_dst")
    ELSE IF msg.oif = 0
      THEN Did(st, "dropped", "no_oif")
      ELSE CallNewRoute(st, [dst |-> msg.dst[1], pflen |-> msg.pflen, oif |-> msg.oif,
                             table |-> msg.table,
                             owned |-> msg.protocol = RTPROT_NDPPD])

\* The route built for the delete leaves owned zero; ndL_delete_route does not
\* look at it.
ndL_handle_delroute(st, msg) ==
  IF msg.dst = <<>>
    THEN Did(st, "dropped", "no_dst")
    ELSE IF msg.oif = 0
      THEN Did(st, "dropped", "no_oif")
      ELSE CallDeleteRoute(st, [dst |-> msg.dst[1], pflen |-> msg.pflen, oif |-> msg.oif,
                                table |-> msg.table, owned |-> FALSE])

\* NLMSG_OK(hdr, len), for a header that lies inside the buffer.
NLMSG_OK(hdr, len) == hdr.len >= HdrLen /\ hdr.len <= len

\* NLMSG_ALIGN: record lengths are whole units already.
NLMSG_ALIGN(len) == len

\* The body of the record loop for one record that is neither NLMSG_DONE nor
\* out of bounds.
NlDispatch(st, hdr) ==
  IF hdr.type = "NLMSG_ERROR" THEN Did(st, "error", "logged")
  ELSE IF hdr.type = "RTM_NEWROUTE" THEN ndL_handle_newroute(st, hdr)
  ELSE IF hdr.type = "RTM_DELROUTE" THEN ndL_handle_delroute(st, hdr)
  ELSE IF hdr.type = "RTM_NEWADDR" THEN ndL_handle_newaddr(st, hdr)
  ELSE IF hdr.type = "RTM_DELADDR" THEN ndL_handle_deladdr(st, hdr)
  ELSE Did(st, "ignored", "unknown_type")

\* Variant: an NLMSG_ERROR record ends the walk over its buffer.
RECURSIVE ndL_io_handler_errorEnds(_, _, _)
ndL_io_handler_errorEnds(st, buf, i) ==
  IF BufLen(buf) - i < HdrLen
    THEN Stop(st, "end")
    ELSE LET hdr == HdrAt(buf, i)
         IN IF ~NLMSG_OK(hdr, BufLen(buf) - i)
              THEN Stop(st, "stopped")
              ELSE IF hdr.type = "NLMSG_DONE"
                THEN Stop([Did(st, "done", "cleared") EXCEPT
                             !.timeout = ndL_io_handler_done(@)], "done")
                ELSE IF hdr.type = "NLMSG_ERROR"
                  THEN Stop(Did(st, "error", "logged"), "end")
                  ELSE ndL_io_handler_errorEnds(NlDispatch(st, hdr), buf,
                                                i + NLMSG_ALIGN(hdr.len))

\* The record loop of the netlink read handler over one received buffer,
\* from offset i on.
RECURSIVE ndL_io_handler(_, _, _)
ndL_io_handler(st, buf, i) ==
  IF BufLen(buf) - i < HdrLen
    THEN Stop(st, "end")
    ELSE LET hdr == HdrAt(buf, i)
         IN IF ~NLMSG_OK(hdr, BufLen(buf) - i)
              THEN Stop(st, "stopped")
              ELSE IF hdr.type = "NLMSG_DONE"
                THEN Stop([Did(st, "done", "cleared") EXCEPT
                             !.timeout = ndL_io_handler_done(@)], "done")
                ELSE ndL_io_handler(NlDispatch(st, hdr), buf, i + NLMSG_ALIGN(hdr.len))

\* --- routing socket (#else)
\* The length of the run of leading one bits of a netmask.
nd_mask_to_pflen(mask) == IF 1 \notin mask THEN 0 ELSE IF 2 \notin mask THEN 1 ELSE 2

\* The prefix length both routing-socket handlers compute.
RtPflen(hdr) == IF hdr.netmask # <<>> THEN nd_mask_to_pflen(hdr.netmask[1]) ELSE 128

\* __FreeBSD__: the table is always 0.
ndL_handle_rt(st, hdr) ==
  IF hdr.dst = <<>> \/ hdr.dst[1].family # "AF_INET6"
    THEN Did(st, "dropped", "no_dst")
    ELSE LET route == [dst |-> hdr.dst[1].addr, pflen |-> RtPflen(hdr), oif |-> hdr.index,
                       table |-> 0, owned |-> "RTF_PROTO3" \in hdr.flags]
         IN IF hdr.type \in {"RTM_GET", "RTM_ADD"} THEN CallNewRoute(st, route)
            ELSE IF hdr.type = "RTM_DELETE" THEN CallDeleteRoute(st, route)
            ELSE Did(st, "ignored", "unknown_type")

ndL_handle_ifa(st, hdr) ==
  IF hdr.dst = <<>> \/ hdr.dst[1].family # "AF_INET6"
    THEN Did(st, "dropped", "no_addr")
    ELSE IF hdr.type = "RTM_NEWADDR"
      THEN CallNewAddr(st, hdr.index, hdr.dst[1].addr, RtPflen(hdr))
      ELSE IF hdr.type = "RTM_DELADDR"
        THEN CallDeleteAddr(st, hdr.index, hdr.dst[1].addr, RtPflen(hdr))
        ELSE Did(st, "ignored", "unknown_type")

\* The switch on the record type.
RtDispatch(st, hdr) ==
  IF hdr.type \in {"RTM_ADD", "RTM_GET", "RTM_DELETE"} THEN ndL_handle_rt(st, hdr)
  ELSE IF hdr.type \in {"RTM_NEWADDR", "RTM_DELADDR"} THEN ndL_handle_ifa(st, hdr)
  ELSE Did(st, "ignored", "unknown_type")

\* Variant: the record is handled without comparing its end with buflen.
RECURSIVE ndL_handle_noBound(_, _, _)
ndL_handle_noBound(st, buf, i) ==
  IF ~(i < BufLen(buf))
    THEN Stop(st, "end")
    ELSE LET hdr == HdrAt(buf, i)
             j == i + hdr.len
         IN IF j = i
              THEN Stop(RtDispatch(st, hdr), "hung")
              ELSE ndL_handle_noBound(RtDispatch(st, hdr), buf, j)

\* The loop of ndL_handle from offset i on.  A record of msglen 0 leaves i
\* where it was: the loop handles the same record again for ever, and the
\* first pass has already brought the caches to where every later pass leaves
\* them.
RECURSIVE ndL_handle(_, _, _)
ndL_handle(st, buf, i) ==
  IF ~(i < BufLen(buf))
    THEN Stop(st, "end")
    ELSE LET hdr == HdrAt(buf, i)
             j == i + hdr.len
         IN IF j > BufLen(buf)
              THEN Stop(st, "stopped")
              ELSE IF j = i
                THEN Stop(RtDispatch(st, hdr), "hung")
                ELSE ndL_handle(RtDispatch(st, hdr), buf, j)

\* One buffer through the build's decoder, starting from the statics st.
Decode(plat, st, buf) ==
  IF plat = "netlink" THEN ndL_io_handler(st, buf, 0) ELSE ndL_handle(st, buf, 0)

\* nd_io_recv has returned a buffer and the read handler walks it.  A walk
\* that never ends leaves the process inside the handler.  lastOp keeps how the
\* walk ended, what the last record it dispatched on did, and whether that
\* record had others before it in the buffer.
Receive(buf) ==
  /\ HandlerLive
  /\ lastOp.did # "hung"
  /\ \E res \in {Decode(platform, Statics, buf)} :
       /\ Len(res.routes) + res.free_routes + Len(res.addrs) + res.free_addrs <= MaxAlloc
       /\ ndL_routes' = res.routes
       /\ ndL_free_routes' = res.free_routes
       /\ ndL_addrs' = res.addrs
       /\ ndL_free_addrs' = res.free_addrs
       /\ peak_routes' = res.peak_routes
       /\ peak_addrs' = res.peak_addrs
       /\ nd_rt_dump_timeout' = res.timeout
       /\ outstanding' = IF res.reason = "done" THEN 0 ELSE outstanding
       /\ armedBy' = IF res.reason = "done" THEN "none" ELSE armedBy
       /\ lastOp' = Op("decode", res.reason, <<[preceded |-> res.examined > 1, last |-> res.last]>>)
  /\ UNCHANGED <<nd_current_time, ioVars>>

\* Either build with its transport open; on netlink a route dump requested at
\* time 0 is pending.
InitDecode ==
  /\ ndL_routes = <<>>
  /\ ndL_free_routes = 0
  /\ ndL_addrs = <<>>
  /\ ndL_free_addrs = 0
  /\ peak_routes = 0
  /\ peak_addrs = 0
  /\ nd_current_time = 0
  /\ platform \in {"netlink", "route"}
  /\ ndL_io = 1
  /\ ios = <<[state |-> "open", handler |-> TRUE, closes |-> 0]>>
  /\ nd_rt_dump_timeout = IF platform = "netlink" THEN DumpGrace ELSE 0
  /\ outstanding = IF platform = "netlink" THEN 1 ELSE 0
  /\ armedBy = IF platform = "netlink" THEN "RTM_GETROUTE" ELSE "none"
  /\ lastOp = Op("init", "none", <<>>)

\* The buffers the kernel delivers to the read handler.
NextDecode == \E buf \in Buffers(platform) : Receive(buf)

SpecDecode == InitDecode /\ [][NextDecode]_vars

\* The kernel's route and address events, as the decoder applies them.
Next ==
  \/ \E r \in RouteRecs : NewRoute(r)
  \/ \E r \in RouteDelRecs : DeleteRoute(r)
  \/ \E a \in AddrRecs : NewAddr(a)
  \/ \E a \in AddrRecs : DeleteAddr(a)

Spec == Init /\ [][Next]_vars

\* Route events together with the daemon's lookups and its shutdown walk.
NextQuery ==
  \/ \E r \in RouteRecs : NewRoute(r)
  \/ \E r \in RouteDelRecs : DeleteRoute(r)
  \/ \E a \in Addrs, t \in Tables : FindRoute(a, t)
  \/ RemoveOwnedRoutes

SpecQuery == Init /\ [][NextQuery]_vars

\* The transport's life cycle from a fresh process, with the address events
\* the kernel delivers while the transport is open.
NextIo ==
  \/ \E socketOk \in BOOLEAN, bindOk \in BOOLEAN : Open(socketOk, bindOk)
  \/ Cleanup
  \/ \E a \in AddrRecs : NewAddr(a)
  \/ \E a \in AddrRecs : DeleteAddr(a)

SpecIo == InitFresh /\ [][NextIo]_vars

\* Dump requests, their completion and the passing of time (netlink build).
NextDump ==
  \/ \E sendOk \in BOOLEAN : QueryRoutes(sendOk)
  \/ \E sendOk \in BOOLEAN : QueryAddresses(sendOk)
  \/ DumpDone
  \/ Tick

SpecDump == Init /\ [][NextDump]_vars

\* The daemon's route requests next to the kernel's route events and a dump
\* in flight (netlink build).
NextMutator ==
  \/ \E r \in RouteRecs : NewRoute(r)
  \/ \E r \in RouteDelRecs : DeleteRoute(r)
  \/ \E a \in MutatorArgs, sendOk \in BOOLEAN : AddRoute(a, sendOk)
  \/ \E a \in MutatorArgs, sendOk \in BOOLEAN : RemoveRoute(a, sendOk)
  \/ \E sendOk \in BOOLEAN : QueryRoutes(sendOk)
  \/ DumpDone

SpecMutator == Init /\ [][NextMutator]_vars

\* The daemon's four calls into the route mirror next to the kernel's route
\* events and a dump in flight (netlink build).
NextFrame ==
  \/ \E r \in RouteRecs : NewRoute(r)
  \/ \E r \in RouteDelRecs : DeleteRoute(r)
  \/ \E a \in MutatorArgs, sendOk \in BOOLEAN : AddRoute(a, sendOk)
  \/ \E a \in MutatorArgs, sendOk \in BOOLEAN : RemoveRoute(a, sendOk)
  \/ \E a \in MutatorArgs : FindRoute(a.dst, a.table)
  \/ RemoveOwnedRoutes
  \/ \E sendOk \in BOOLEAN : QueryRoutes(sendOk)
  \/ DumpDone

SpecFrame == Init /\ [][NextFrame]_vars

\* ------------------------------------------------------------------ claims
\* C1: no two entries of the Route Cache share (destination, prefix length,
\* table) and no two entries of the Address Cache share (interface index,
\* address, prefix length).
C1_UniqueKeys ==
  /\ \A i, j \in 1 .. Len(ndL_routes) :
       (/\ ndL_routes[i].dst = ndL_routes[j].dst
        /\ ndL_routes[i].pflen = ndL_routes[j].pflen
        /\ ndL_routes[i].table = ndL_routes[j].table) => i = j
  /\ \A i, j \in 1 .. Len(ndL_addrs) :
       (/\ ndL_addrs[i].iif = ndL_addrs[j].iif
        /\ ndL_addrs[i].addr = ndL_addrs[j].addr
        /\ ndL_addrs[i].pflen = ndL_addrs[j].pflen) => i = j

\* A duplicate add has just been dropped while the caches hold entries that
\* differ from one another in a single key field.
C1_Witness ==
  /\ lastOp.op \in {"new_route", "new_addr"}
  /\ lastOp.did = "dup"
  /\ \E i, j \in 1 .. Len(ndL_routes) :
       /\ ndL_routes[i].dst = ndL_routes[j].dst
       /\ ndL_routes[i].pflen = ndL_routes[j].pflen
       /\ ndL_routes[i].table # ndL_routes[j].table
  /\ Len(ndL_addrs) >= 1

\* C2: iterating the Route Cache from its head yields non-increasing prefix
\* lengths.
C2_Sorted ==
  \A i \in 1 .. (Len(ndL_routes) - 1) : ndL_routes[i].pflen >= ndL_routes[i + 1].pflen

\* Three live routes of three prefix lengths, the last of them inserted into an
\* entry that an earlier delete had put on the freelist.
C2_Witness ==
  /\ lastOp = Op("new_route", "reused", <<>>)
  /\ Len(ndL_routes) = 3
  /\ ndL_routes[1].pflen > ndL_routes[2].pflen
  /\ ndL_routes[2].pflen > ndL_routes[3].pflen

\* C7: applying the same route-add or address-add event a second time leaves
\* the cache (size, contents, order) and its freelist as the first application
\* left them.
C7_AddIdempotent ==
  /\ \A r \in RouteRecs :
       \A once \in {ndL_new_route(ndL_routes, ndL_free_routes, r)} :
         \A twice \in {ndL_new_route(once.routes, once.free, r)} :
           twice.routes = once.routes /\ twice.free = once.free
  /\ \A a \in AddrRecs :
       \A once \in {ndL_new_addr(ndL_addrs, ndL_free_addrs, a.iif, a.addr, a.pflen)} :
         \A twice \in {ndL_new_addr(once.addrs, once.free, a.iif, a.addr, a.pflen)} :
           twice.addrs = once.addrs /\ twice.free = once.free

\* A repeated route-add was applied to a cache whose matching entry is not at
\* the head, with an entry waiting on the freelist.
C7_Witness ==
  /\ lastOp = Op("new_route", "dup", <<>>)
  /\ Len(ndL_routes) >= 2
  /\ ndL_free_routes >= 1

\* C8: a route-delete removes the one entry that matches destination, outbound
\* interface, prefix length and table; when no entry matches all four, the
\* Route Cache and the freelist stay as they were.
C8_DeleteExact ==
  \A r \in RouteDelRecs :
    \A res \in {ndL_delete_route(ndL_routes, ndL_free_routes, r)} :
      LET hits == { i \in 1 .. Len(ndL_routes) :
                      /\ ndL_routes[i].dst = r.dst
                      /\ ndL_routes[i].oif = r.oif
                      /\ ndL_routes[i].pflen = r.pflen
                      /\ ndL_routes[i].table = r.table }
      IN IF hits = {}
           THEN res.routes = ndL_routes /\ res.free = ndL_free_routes
           ELSE /\ \E i \in hits : res.routes = RemoveAt(ndL_routes, i)
                /\ res.free = ndL_free_routes + 1

\* A delete for a cached key under another interface has just left the cache alone.
C8_Witness ==
  /\ lastOp = Op("delete_route", "other_oif", <<>>)
  /\ Len(ndL_routes) >= 2

\* C3: find_route(address, table) returns an entry of the queried table whose
\* prefix contains the address and whose prefix length is the greatest among
\* the cached entries of that table containing the address; it returns
\* not-found exactly when no cached entry of that table contains the address.
C3_LongestMatch ==
  \A a \in Addrs, t \in Tables :
    LET res == nd_rt_find_route(ndL_routes, a, t)
        containing == { i \in 1 .. Len(ndL_routes) :
                          /\ ndL_routes[i].table = t
                          /\ ndL_routes[i].dst \cap (1 .. ndL_routes[i].pflen)
                               = a \cap (1 .. ndL_routes[i].pflen) }
    IN IF containing = {}
         THEN res = <<>>
         ELSE /\ Len(res) = 1
              /\ \E i \in containing : res[1] = ndL_routes[i]
              /\ \A i \in containing : ndL_routes[i].pflen <= res[1].pflen

\* A lookup has just returned the /2 route although the list also holds the /1
\* route of the same table that contains the address, and a route of another
\* table.
C3_Witness ==
  /\ lastOp.op = "find_route"
  /\ Len(lastOp.val) = 1
  /\ lastOp.val[1].pflen = 2
  /\ \E i \in 1 .. Len(ndL_routes) :
       /\ ndL_routes[i].pflen = 1
       /\ ndL_routes[i].dst = {}
       /\ ndL_routes[i].table = lastOp.val[1].table
  /\ \E i \in 1 .. Len(ndL_routes) : ndL_routes[i].table # lastOp.val[1].table

\* C6: remove_owned_routes() issues a remove_route request exactly once for
\* each owned entry of the Route Cache, with that entry's destination, prefix
\* length and table, issues none for a non-owned entry, and leaves the cache as
\* it was.
C6_RemoveOwned ==
  [][lastOp'.op = "remove_owned_routes" =>
       LET reqs == lastOp'.val
           For(e) == { k \in 1 .. Len(reqs) :
                         /\ reqs[k].type = "delete_route"
                         /\ reqs[k].dst = e.dst
                         /\ reqs[k].pflen = e.pflen
                         /\ reqs[k].table = e.table }
       IN /\ \A i \in 1 .. Len(ndL_routes) :
               Cardinality(For(ndL_routes[i])) = IF ndL_routes[i].owned THEN 1 ELSE 0
          /\ \A k \in 1 .. Len(reqs) :
               \E i \in 1 .. Len(ndL_routes) : k \in For(ndL_routes[i])
          /\ \A i \in 1 .. Len(ndL_routes) :
               ~ndL_routes[i].owned =>
                 \E j \in 1 .. Len(ndL_routes') : ndL_routes'[j] = ndL_routes[i]
     ]_vars

\* The walk has just run over a list holding both owned and non-owned routes.
C6_Witness ==
  /\ lastOp.op = "remove_owned_routes"
  /\ Len(lastOp.val) = 2
  /\ Len(ndL_routes) = 3

\* C4: between two decoded DumpDone records at most one dump request goes to
\* the kernel: a query made while one is outstanding returns false, sends
\* nothing and leaves pending-until as it was; a decoded DumpDone sets
\* pending-until to 0, and the query after it is issued and returns true.
C4_OneDumpAtATime ==
  [][/\ outstanding' <= 1
     /\ (lastOp'.op \in {"query_routes", "query_addresses"} /\ outstanding >= 1) =>
          /\ lastOp'.did = "false"
          /\ lastOp'.val = <<>>
          /\ nd_rt_dump_timeout' = nd_rt_dump_timeout
          /\ outstanding' = outstanding
     /\ lastOp'.op = "dump_done" => nd_rt_dump_timeout' = 0
     /\ (lastOp.op = "dump_done" /\ lastOp'.op \in {"query_routes", "query_addresses"}) =>
          /\ lastOp'.did = "true"
          /\ Len(lastOp'.val) = 1
          /\ outstanding' = 1
    ]_vars

\* A second query has just been refused inside the window of the first.
C4_Witness ==
  /\ lastOp = Op("query_routes", "false", <<>>)
  /\ outstanding = 1
  /\ nd_current_time < nd_rt_dump_timeout

\* C5: once the clock has passed pending-until, a query is accepted and sends a
\* new request although no DumpDone was decoded.
C5_ExpiredDumpReissued ==
  [][(/\ lastOp'.op \in {"query_routes", "query_addresses"}
      /\ nd_rt_dump_timeout # 0
      /\ nd_current_time > nd_rt_dump_timeout) =>
       /\ lastOp'.did = "true"
       /\ Len(lastOp'.val) = 1
    ]_vars

\* C9: every transport object is closed at most once, cleanup() leaves the
\* subsystem not open, and an open() that returns true leaves an open
\* transport behind.
C9_ClosedOnce ==
  /\ \A i \in 1 .. Len(ios) : ios[i].closes <= 1
  /\ lastOp.op = "cleanup" => ndL_io = NULL
  /\ (lastOp.op = "open" /\ lastOp.val = <<"true">>) =>
       ndL_io # NULL /\ ios[ndL_io].state = "open"

\* C10: open() on an open transport returns true and creates nothing; an
\* open() that returns false leaves ndL_io NULL, no handler registered and the
\* socket it created closed; an open() that finds ndL_io NULL and returns true
\* has set up a new transport, open and with the handler registered.
C10_OpenIdempotentFailsClean ==
  [][lastOp'.op = "open" =>
       LET created == (Len(ios) + 1) .. Len(ios')
       IN /\ \A i \in 1 .. Len(ios) : ios'[i] = ios[i]
          /\ (ndL_io # NULL /\ ios[ndL_io].state = "open") =>
               /\ lastOp'.val = <<"true">>
               /\ ios' = ios
               /\ ndL_io' = ndL_io
          /\ lastOp'.val = <<"false">> =>
               /\ ndL_io' = NULL
               /\ \A i \in created : ios'[i].state = "closed" /\ ~ios'[i].handler
          /\ (ndL_io = NULL /\ lastOp'.val = <<"true">>) =>
               /\ created = {Len(ios) + 1}
               /\ ndL_io' = Len(ios) + 1
               /\ ios'[ndL_io'].state = "open"
               /\ ios'[ndL_io'].handler
    ]_vars

\* After a failed bind, whose socket was closed, a later open() has set up a
\* second transport.
C10_Witness ==
  /\ lastOp = Op("open", "opened", <<"true">>)
  /\ platform = "netlink"
  /\ ndL_io = 2
  /\ ios[1].state = "closed"
  /\ ios[2].state = "open"

\* C11: a query whose dump request could not be sent returns false.
C11_SendFailureReported ==
  (/\ lastOp.op \in {"query_routes", "query_addresses"}
   /\ \E i \in 1 .. Len(lastOp.val) : lastOp.val[i].ret < 0) =>
    lastOp.did = "false"

\* A dump of one kind is pending and the next step is a query of the other kind.
OtherKindQueried ==
  \/ armedBy = "RTM_GETROUTE" /\ lastOp'.op = "query_addresses"
  \/ armedBy = "RTM_GETADDR" /\ lastOp'.op = "query_routes"

\* C15: a query of the other kind made while a dump is pending is issued and
\* moves pending-until to its own time + 5000.
C15_SecondDumpOverwrites ==
  [][OtherKindQueried =>
       /\ lastOp'.did = "true"
       /\ Len(lastOp'.val) = 1
       /\ nd_rt_dump_timeout' = nd_current_time + DumpGrace
    ]_vars

\* C15 (amended): a query of the other kind made while a dump is pending is
\* refused: it returns false, sends nothing and leaves pending-until at the
\* first request's time + 5000.
C15_SecondDumpRefused ==
  [][OtherKindQueried =>
       /\ lastOp'.did = "false"
       /\ lastOp'.val = <<>>
       /\ nd_rt_dump_timeout' = nd_rt_dump_timeout
       /\ armedBy' = armedBy
    ]_vars

\* An address query has just been refused, later than the route query that is
\* still pending; pending-until is still the route query's time + 5000.
C15_Witness ==
  /\ armedBy = "RTM_GETROUTE"
  /\ lastOp = Op("query_addresses", "false", <<>>)
  /\ nd_current_time > 0
  /\ nd_rt_dump_timeout = DumpGrace

\* C12: add_route() and remove_route() hand exactly one request to the
\* transport and return true exactly when that send succeeded, whatever the
\* cache holds and whether or not a dump is pending.
C12_ResultIsSendResult ==
  lastOp.op \in {"add_route", "remove_route"} =>
    /\ Len(lastOp.val) = 1
    /\ lastOp.did = "true" <=> lastOp.val[1].ret >= 0

\* add_route() has just returned false for a route the cache already holds,
\* with a dump pending: the send failed.
C12_Witness ==
  /\ lastOp.op = "add_route"
  /\ lastOp.did = "false"
  /\ lastOp.val[1].ret < 0
  /\ nd_rt_dump_timeout # 0
  /\ \E i \in 1 .. Len(ndL_routes) :
       /\ ndL_routes[i].dst = lastOp.val[1].req.dst
       /\ ndL_routes[i].pflen = lastOp.val[1].req.pflen
       /\ ndL_routes[i].table = lastOp.val[1].req.table

\* C13: neither pool ever holds more objects than the most entries its cache
\* has held at once, and an insert that allocated found the freelist empty.
C13_AllocatedWithinPeak ==
  /\ RoutesAllocated <= peak_routes
  /\ AddrsAllocated <= peak_addrs
  /\ (lastOp.op = "new_route" /\ lastOp.did = "allocated") => ndL_free_routes = 0
  /\ (lastOp.op = "new_addr" /\ lastOp.did = "allocated") => ndL_free_addrs = 0

\* Two routes were inserted and both deleted; a further insert has just
\* reused a released object, so two route objects exist, one of them still on
\* the freelist.  An address object has been released as well.
C13_Witness ==
  /\ lastOp = Op("new_route", "reused", <<>>)
  /\ peak_routes = 2
  /\ Len(ndL_routes) = 1
  /\ ndL_free_routes = 1
  /\ peak_addrs = 1
  /\ ndL_free_addrs = 1

\* Where the entry just inserted sits in the list after an insert step.
NewEntryIdx(before, after) ==
  CHOOSE k \in 1 .. Len(after) : before = RemoveAt(after, k)

\* C19: a route with a new key is inserted immediately before the first
\* existing entry whose prefix length is strictly smaller than its own, at the
\* tail if there is none: after every existing entry of equal prefix length.
C19_InsertAfterEqual ==
  \A r \in RouteRecs :
    \A res \in {ndL_new_route(ndL_routes, ndL_free_routes, r)} :
      res.did # "dup" =>
        \A k \in {NewEntryIdx(ndL_routes, res.routes)} :
          /\ res.routes[k] = r
          /\ \A i \in 1 .. (k - 1) : ndL_routes[i].pflen >= r.pflen
          /\ k <= Len(ndL_routes) => ndL_routes[k].pflen < r.pflen

\* C19 (amended): a route with a new key is inserted immediately before the
\* first existing entry whose prefix length is less than or equal to its own,
\* at the tail if there is none: after every longer entry and before every
\* existing entry of equal prefix length.
C19_InsertBeforeEqual ==
  \A r \in RouteRecs :
    \A res \in {ndL_new_route(ndL_routes, ndL_free_routes, r)} :
      res.did # "dup" =>
        \A k \in {NewEntryIdx(ndL_routes, res.routes)} :
          /\ res.routes[k] = r
          /\ \A i \in 1 .. (k - 1) : ndL_routes[i].pflen > r.pflen
          /\ k <= Len(ndL_routes) => ndL_routes[k].pflen <= r.pflen

\* An insert has just put a route between a longer entry and an entry of its
\* own prefix length.
C19_Witness ==
  /\ lastOp.op = "new_route"
  /\ lastOp.did \in {"allocated", "reused"}
  /\ Len(ndL_routes) = 3
  /\ ndL_routes[1].pflen > ndL_routes[2].pflen
  /\ ndL_routes[2].pflen = ndL_routes[3].pflen
  /\ ndL_new_route(RemoveAt(ndL_routes, 2), ndL_free_routes + 1, ndL_routes[2]).routes = ndL_routes

\* --- reading a wire record
Wire(plat) == IF plat = "netlink" THEN WireNl ELSE WireRt

IsRouteAdd(plat, w) ==
  IF plat = "netlink" THEN w.type = "RTM_NEWROUTE" ELSE w.type \in {"RTM_ADD", "RTM_GET"}

IsRouteDelete(plat, w) ==
  IF plat = "netlink" THEN w.type = "RTM_DELROUTE" ELSE w.type = "RTM_DELETE"

IsCacheRecord(plat, w) ==
  \/ IsRouteAdd(plat, w)
  \/ IsRouteDelete(plat, w)
  \/ w.type \in {"RTM_NEWADDR", "RTM_DELADDR"}

\* The record carries its destination (as an IPv6 address on the routing socket).
HasDst(plat, w) ==
  /\ w.dst # <<>>
  /\ plat = "route" => w.dst[1].family = "AF_INET6"

\* The interface index the record carries, 0 when it carries none.
WireOif(plat, w) == IF plat = "netlink" THEN w.oif ELSE w.index

\* The record carries the daemon's marker.
Marked(plat, w) ==
  IF plat = "netlink" THEN w.protocol = RTPROT_NDPPD ELSE "RTF_PROTO3" \in w.flags

\* The cache entry's fields the record spells out (owned aside).
FieldsMatch(plat, w, e) ==
  /\ e.dst = (IF plat = "netlink" THEN w.dst[1] ELSE w.dst[1].addr)
  /\ e.pflen = (IF plat = "netlink" THEN w.pflen ELSE RtPflen(w))
  /\ e.oif = WireOif(plat, w)
  /\ e.table = (IF plat = "netlink" THEN w.table ELSE 0)

\* A complete route-add record either decoder applies.
ValidAdd(plat, w) ==
  /\ IsRouteAdd(plat, w)
  /\ w.len = RecLen
  /\ HasDst(plat, w)
  /\ plat = "netlink" => w.oif # 0

Caches(st) == <<st.routes, st.free_routes, st.addrs, st.free_addrs>>

One(w) == [recs |-> <<w>>, cut |-> FALSE]

\* C14: a buffer holding one valid route-add record and then a record whose
\* declared length runs past the end of the buffer makes exactly one call of
\* the route upsert, with the first record's fields, touches nothing else and
\* ends the walk normally, on either build.
C14_TruncatedTrailingIgnored ==
  \A a \in Wire(platform), t \in Tails(platform) :
    ValidAdd(platform, a) =>
      \A res \in {Decode(platform, Statics, [recs |-> <<a, t>>, cut |-> TRUE])} :
        /\ res.reason = "stopped"
        /\ res.examined = 1
        /\ res.last.op = "new_route"
        /\ \E e \in [dst : Addrs, pflen : {0, 1, 2, 128}, oif : {0, 1, 2},
                      table : Tables, owned : BOOLEAN] :
             /\ FieldsMatch(platform, a, e)
             /\ \A once \in {ndL_new_route(ndL_routes, ndL_free_routes, e)} :
                  /\ res.routes = once.routes
                  /\ res.free_routes = once.free
                  /\ res.last.did = once.did
        /\ res.addrs = ndL_addrs
        /\ res.free_addrs = ndL_free_addrs
        /\ res.timeout = nd_rt_dump_timeout

\* On the routing socket a walk has just stopped at a cut-off record after
\* its first record allocated the only route entry there is.
C14_Witness ==
  /\ platform = "route"
  /\ lastOp = Op("decode", "stopped",
                 <<[preceded |-> FALSE, last |-> [op |-> "new_route", did |-> "allocated"]]>>)
  /\ Len(ndL_routes) = 1
  /\ RoutesAllocated = 1
  /\ AddrsAllocated = 0

\* C16: no walk over a received buffer goes on for ever.
C16_DecodeTerminates ==
  lastOp.op = "decode" => lastOp.did # "hung"

\* The buffers whose records are all complete and declare their true length.
WellFramed(buf) == ~buf.cut /\ \A k \in 1 .. Len(buf.recs) : buf.recs[k].len = RecLen

NlFramed == { b \in NlBuffers : WellFramed(b) }
RtFramed == { b \in RtBuffers : WellFramed(b) }
Framed(plat) == IF plat = "netlink" THEN NlFramed ELSE RtFramed

\* Every route and address record of recs, from the k-th on, handed to its
\* handler in order; records of other types do nothing.
RECURSIVE ApplyInOrder(_, _, _, _)
ApplyInOrder(plat, st, recs, k) ==
  IF k > Len(recs)
    THEN st
    ELSE ApplyInOrder(plat,
                      IF IsCacheRecord(plat, recs[k])
                        THEN (IF plat = "netlink" THEN NlDispatch(st, recs[k])
                                                  ELSE RtDispatch(st, recs[k]))
                        ELSE st,
                      recs, k + 1)

\* The records in front of the first NLMSG_DONE.
UpToDone(recs) ==
  SubSeq(recs, 1, FirstIdx(recs, LAMBDA w : w.type = "NLMSG_DONE") - 1)

\* C17: in a buffer of complete records every route and address record is
\* applied to its cache, in buffer order, whatever records stand before it
\* (route, address, error, dump-done or unknown).
C17_EveryRecordApplied ==
  \A buf \in Framed(platform) :
    Caches(Decode(platform, Statics, buf)) = Caches(ApplyInOrder(platform, Statics, buf.recs, 1))

\* C17 (amended): in a buffer of complete records every route and address
\* record is applied to its cache, in buffer order, whatever records stand
\* before it, except that the netlink walk ends at the first dump-done record:
\* the records behind it in that buffer are not applied.
C17_EveryRecordAppliedUpToDone ==
  \A buf \in Framed(platform) :
    Caches(Decode(platform, Statics, buf)) =
      Caches(ApplyInOrder(platform, Statics, UpToDone(buf.recs), 1))

\* On netlink an address record that had other records before it in its
\* buffer has just been applied, next to a route entry.
C17_Witness ==
  /\ platform = "netlink"
  /\ lastOp = Op("decode", "end",
                 <<[preceded |-> TRUE, last |-> [op |-> "new_addr", did |-> "allocated"]]>>)
  /\ Len(ndL_routes) = 1
  /\ Len(ndL_addrs) = 1

\* A route record on its own in a buffer.
RouteRecordAlone(w) ==
  /\ platform = "netlink"
  /\ w.len = RecLen
  /\ IsRouteAdd(platform, w) \/ IsRouteDelete(platform, w)

\* C18: the netlink decoder drops a route-add or route-delete record exactly
\* when its destination attribute is missing; a record with a destination
\* reaches the Route Cache with or without an outbound interface.
C18_OnlyDstMandatory ==
  \A w \in WireNl :
    RouteRecordAlone(w) =>
      \A res \in {Decode(platform, Statics, One(w))} :
        /\ res.last.op = "dropped" <=> ~HasDst(platform, w)
        /\ HasDst(platform, w) =>
             res.last.op = (IF IsRouteAdd(platform, w) THEN "new_route" ELSE "delete_route")

\* C18 (amended): the netlink decoder drops a route-add or route-delete
\* record exactly when its destination attribute is missing or it carries no
\* outbound interface (or interface index 0); every other record reaches the
\* Route Cache with the fields it carries, and a dropped one changes nothing.
C18_DstAndOifMandatory ==
  \A w \in WireNl :
    RouteRecordAlone(w) =>
      \A res \in {Decode(platform, Statics, One(w))} :
        /\ res.last.op = "dropped" <=> (~HasDst(platform, w) \/ WireOif(platform, w) = 0)
        /\ res.last.op = "dropped" => Caches(res) = Caches(Statics)
        /\ res.last.op # "dropped" =>
             /\ res.last.op = (IF IsRouteAdd(platform, w) THEN "new_route" ELSE "delete_route")
             /\ res.last.did \in {"allocated", "reused"} =>
                  \E j \in 1 .. Len(res.routes) :
                    /\ FieldsMatch(platform, w, res.routes[j])
                    /\ \A i \in 1 .. Len(ndL_routes) : ndL_routes[i] # res.routes[j]
             /\ res.last.did = "deleted" =>
                  /\ \E i \in 1 .. Len(ndL_routes) : FieldsMatch(platform, w, ndL_routes[i])
                  /\ \A j \in 1 .. Len(res.routes) : ~FieldsMatch(platform, w, res.routes[j])

\* A route record that carries a destination but no outbound interface has
\* just been dropped.
C18_Witness ==
  /\ platform = "netlink"
  /\ lastOp.op = "decode"
  /\ lastOp.val[1].last = [op |-> "dropped", did |-> "no_oif"]

\* C20: an owned entry has the fields of an add record that carries the
\* daemon's marker; decoding an add record leaves every entry as it was, and
\* the entry it creates, if any, has the record's fields and is owned exactly
\* when the record carries the marker.
C20_OwnedFromMarkerOnly ==
  /\ \A i \in 1 .. Len(ndL_routes) :
       ndL_routes[i].owned =>
         \E w \in Wire(platform) :
           /\ IsRouteAdd(platform, w)
           /\ HasDst(platform, w)
           /\ Marked(platform, w)
           /\ FieldsMatch(platform, w, ndL_routes[i])
  /\ \A w \in Wire(platform) :
       IsRouteAdd(platform, w) =>
         \A res \in {Decode(platform, Statics, One(w))} :
           /\ \A i \in 1 .. Len(ndL_routes) :
                \E j \in 1 .. Len(res.routes) : res.routes[j] = ndL_routes[i]
           /\ Len(res.routes) <= Len(ndL_routes) + 1
           /\ \A j \in 1 .. Len(res.routes) :
                (\A i \in 1 .. Len(ndL_routes) : ndL_routes[i] # res.routes[j]) =>
                  /\ HasDst(platform, w)
                  /\ FieldsMatch(platform, w, res.routes[j])
                  /\ res.routes[j].owned <=> Marked(platform, w)

\* An add record has just been dropped as a duplicate while the cache holds,
\* unowned, the key for which the input domain also has a marked add record
\* with another interface.
C20_Witness ==
  /\ platform = "netlink"
  /\ lastOp.op = "decode"
  /\ lastOp.val[1].last = [op |-> "new_route", did |-> "dup"]
  /\ \E i \in 1 .. Len(ndL_routes) :
       /\ ~ndL_routes[i].owned
       /\ \E w \in WireNl :
            /\ IsRouteAdd(platform, w) /\ HasDst(platform, w) /\ Marked(platform, w)
            /\ SameRouteKey(ndL_routes[i], [dst |-> w.dst[1], pflen |-> w.pflen, table |-> w.table])
            /\ w.oif # ndL_routes[i].oif

\* C21: add_route(), remove_route(), remove_owned_routes() and find_route()
\* leave both caches, both freelists and the dump-pending timestamp as they
\* were; the Route Cache changes only in a step that decodes a kernel route
\* record, so what find_route() returns is an entry such a step put there and
\* no such step has taken away since.
C21_CallsLeaveCachesAlone ==
  [][/\ lastOp'.op \in {"add_route", "remove_route", "remove_owned_routes", "find_route"} =>
          /\ ndL_routes' = ndL_routes
          /\ ndL_free_routes' = ndL_free_routes
          /\ ndL_addrs' = ndL_addrs
          /\ ndL_free_addrs' = ndL_free_addrs
          /\ nd_rt_dump_timeout' = nd_rt_dump_timeout
     /\ Len(ndL_routes') > Len(ndL_routes) => lastOp'.op = "new_route"
     /\ Len(ndL_routes') < Len(ndL_routes) => lastOp'.op = "delete_route"
     /\ ndL_routes' # ndL_routes => Len(ndL_routes') # Len(ndL_routes)
     /\ lastOp'.op = "find_route" =>
          \A k \in 1 .. Len(lastOp'.val) :
            \E i \in 1 .. Len(ndL_routes) : ndL_routes[i] = lastOp'.val[k]
    ]_vars

\* add_route() has just returned true for a route while a dump is pending and
\* the cache, which holds another route, has no entry that find_route() would
\* return for the new route's destination and table.
C21_Witness ==
  /\ lastOp.op = "add_route"
  /\ lastOp.did = "true"
  /\ ndL_routes # <<>>
  /\ nd_rt_dump_timeout # 0
  /\ nd_rt_find_route(ndL_routes, lastOp.val[1].req.dst, lastOp.val[1].req.table) = <<>>

====
